---- MODULE Spec2Model ----
(***************************************************************************)
(* A model of jarnsaxa.py: the text helpers parse_idx and ensureWhitespace *)
(* and the nested-mapping <-> HDF converter dict_to_hdf / hdf_to_dict.     *)
(*                                                                         *)
(* Three specifications share the variables: SpecParse (calls of           *)
(* parse_idx), SpecPad (calls of ensureWhitespace, followed one loop pass  *)
(* at a time) and Spec (a session of the converter on an empty directory:  *)
(* dict_to_hdf, then hdf_to_dict, each followed statement block by         *)
(* statement block).  show_detail only selects what is printed and is not  *)
(* modelled.                                                               *)
(*                                                                         *)
(* Python strings are sequences of one-character strings.  Python indices  *)
(* are kept 0-based, as in the source; At and Slice translate them to the  *)
(* 1-based sequences of TLA+.                                              *)
(***************************************************************************)
EXTENDS Integers, Sequences, FiniteSets, TLC

VARIABLES
    \* ---- parse_idx: one call, its arguments and what it returned
    p_pc,         \* "idle" | "done"
    p_input, p_delims, p_out,
    \* ---- ensureWhitespace: one call in progress
    ew_pc,        \* "idle" | "loop" (inside the while/for loops) | "done"
    ew_in,        \* the argument s as passed
    ew_s,         \* the local s, rewritten by the loop
    ew_targets,   \* "".join(set(targets)): the distinct targets in some order
    ew_ti,        \* position of tc in ew_targets (1-based)
    ew_start,     \* start_index
    ew_ws,        \* whitespace_list
    ew_pad,       \* pad_char
    \* ---- dict_to_hdf / hdf_to_dict: the file system and one call in progress
    disk,         \* path -> file
    handle,       \* the h5py.File of the call: "none" | "open" | "closed"
    pc,           \* where the call in progress stands, "idle" between calls
    did_write,    \* dict_to_hdf has been called and has ended
    did_read,     \* hdf_to_dict has been called and has ended
    w_root,       \* root_data
    w_file,       \* save_file
    w_json,       \* use_json_backup
    w_fault,      \* which adapter call of write_level hits an I/O error (0: none)
    hdf_successful,
    w_clean,      \* no adapter call of the write hit the I/O error
    w_json_file,  \* save_file_json once computed, <<>> before
    w_ret,        \* what dict_to_hdf returned: "none" | "True" | "False"
    r_file,       \* filename
    r_to_lists, r_decode_strs,
    r_fault,      \* an adapter call of read_level raised
    r_ret         \* what hdf_to_dict returned: NotReturned | PyNone | a dict

text_vars == <<p_pc, p_input, p_delims, p_out,
               ew_pc, ew_in, ew_s, ew_targets, ew_ti, ew_start, ew_ws, ew_pad>>

hdf_vars == <<disk, handle, pc, did_write, did_read, w_root, w_file, w_json, w_fault,
              hdf_successful, w_clean, w_json_file, w_ret,
              r_file, r_to_lists, r_decode_strs, r_fault, r_ret>>

vars == <<text_vars, hdf_vars>>

(***************************************************************************)
(* Bounds and input alphabets                                              *)
(***************************************************************************)
MaxLen == 4        \* longest input string handed to the text helpers
MaxGrow == 12      \* ensureWhitespace stops being followed once s is this long

Chars == {"a", "b", " ", "\t"}

RECURSIVE StringsOfLen(_)
StringsOfLen(n) ==
    IF n = 0 THEN {<<>>}
    ELSE {Append(s, c) : s \in StringsOfLen(n - 1), c \in Chars}

Strings == UNION {StringsOfLen(n) : n \in 0..MaxLen}

(***************************************************************************)
(* Python string primitives                                                *)
(***************************************************************************)
\* s[i]
At(s, i) == s[i + 1]

\* s[a:b] for 0 <= a, b (clamped at len(s) as Python does)
Slice(s, a, b) ==
    LET hi == IF b > Len(s) THEN Len(s) ELSE b
    IN  IF a >= hi THEN <<>> ELSE SubSeq(s, a + 1, hi)

\* c in str
InStr(c, str) == \E j \in 1..Len(str) : str[j] = c

\* the set of characters of a string
CharSet(str) == {str[j] : j \in 1..Len(str)}

\* every ordering of a set of characters: what "".join(set(targets)) may give
Orderings(S) ==
    {q \in [1..Cardinality(S) -> S] : \A i, j \in 1..Cardinality(S) : q[i] = q[j] => i = j}

(***************************************************************************)
(* parse_idx  (jarnsaxa.py 104-120)                                        *)
(***************************************************************************)
\* the groupby key of position i: lambda x: x in delims
IsDelim(input, delims, i) == InStr(At(input, i), delims)

\* groupby: the end q of the group that starts at p, i.e. p + sum(1 for i in g)
GroupEndMut(input, delims, p) == p + 1

RECURSIVE GroupEnd(_, _, _)
GroupEnd(input, delims, p) ==
    IF p + 1 < Len(input) /\ IsDelim(input, delims, p + 1) = IsDelim(input, delims, p)
    THEN GroupEnd(input, delims, p + 1)
    ELSE p + 1

\* parse_two_idx: the (p, q) pairs of the groups whose key is False
RECURSIVE parse_two_idx_from(_, _, _)
parse_two_idx_from(input, delims, p) ==
    IF p >= Len(input) THEN <<>>
    ELSE LET q == GroupEnd(input, delims, p)
         IN  IF ~IsDelim(input, delims, p)
             THEN <<<<p, q>>>> \o parse_two_idx_from(input, delims, q)
             ELSE parse_two_idx_from(input, delims, q)

parse_two_idx(input, delims) == parse_two_idx_from(input, delims, 0)

\* StringIdx.__init__
StringIdx(val, idx, idx_end) == [str |-> val, idx |-> idx, idx_end |-> idx_end]

parse_idx(input, delims) ==
    LET sections == parse_two_idx(input, delims)
    IN  [n \in 1..Len(sections) |->
            StringIdx(Slice(input, sections[n][1], sections[n][2]),
                      sections[n][1], sections[n][2])]

DelimChoices == {<<" ">>, <<" ", "\t">>, <<>>, <<"a">>, <<"b", " ">>}

pad_vars == <<ew_pc, ew_in, ew_s, ew_targets, ew_ti, ew_start, ew_ws, ew_pad>>
parse_vars == <<p_pc, p_input, p_delims, p_out>>

ParseIdx ==
    /\ p_pc = "idle"
    /\ \E input \in Strings, delims \in DelimChoices :
        /\ p_input' = input
        /\ p_delims' = delims
        /\ p_out' = parse_idx(input, delims)
    /\ p_pc' = "done"
    /\ UNCHANGED <<pad_vars, hdf_vars>>

\* the caller drops the result; the next call starts afresh
ParseReturn ==
    /\ p_pc = "done"
    /\ p_pc' = "idle" /\ p_input' = <<>> /\ p_delims' = <<" ">> /\ p_out' = <<>>
    /\ UNCHANGED <<pad_vars, hdf_vars>>

(***************************************************************************)
(* ensureWhitespace  (jarnsaxa.py 27-72)                                   *)
(***************************************************************************)
\* s[start_index:].index(tc) + start_index, or -1 where Python raises ValueError
RECURSIVE FindFrom(_, _, _)
FindFrom(s, tc, start) ==
    IF start >= Len(s) THEN -1
    ELSE IF At(s, start) = tc THEN start
    ELSE FindFrom(s, tc, start + 1)

\* add0 after lines 52-56
NeedPadBeforeMut(s, idx, ws) == idx /= 0
NeedPadBefore(s, idx, ws) ==
    IF idx = 0 THEN FALSE
    ELSE IF InStr(At(s, idx - 1), ws) THEN FALSE
    ELSE TRUE

\* addf after lines 59-63
NeedPadAfter(s, idx, ws) ==
    IF idx >= Len(s) - 1 THEN FALSE
    ELSE IF InStr(At(s, idx + 1), ws) THEN FALSE
    ELSE TRUE

\* s[:i] + pad_char + s[i:]
InsertAt(s, i, pad) == Slice(s, 0, i) \o pad \o Slice(s, i, Len(s))

TargetChoices == {<<>>, <<"a">>, <<"a", "a">>, <<"a", "b">>, <<" ", "a">>}
WsChoices == {<<" ", "\t">>, <<" ">>}
PadChoices == {<<" ">>, <<"\t">>}

\* the call, up to the first test of the for loop
EW_Call ==
    /\ ew_pc = "idle"
    /\ \E s \in Strings, targets \in TargetChoices, ws \in WsChoices, pad \in PadChoices :
         \E order \in Orderings(CharSet(targets)) :
            /\ ew_in' = s
            /\ ew_s' = s
            /\ ew_targets' = order
            /\ ew_ws' = ws
            /\ ew_pad' = pad
            /\ ew_ti' = 1
            /\ ew_start' = 0
            /\ ew_pc' = IF Len(order) = 0 THEN "done" ELSE "loop"
    /\ UNCHANGED <<parse_vars, hdf_vars>>

\* one pass of the while True loop for the current tc (lines 39-70)
EW_Iter ==
    /\ ew_pc = "loop"
    /\ Len(ew_s) < MaxGrow
    /\ LET tc == ew_targets[ew_ti]
           idx == FindFrom(ew_s, tc, ew_start)
       IN  IF idx = -1
           THEN \* break: the next tc, or the return
                /\ IF ew_ti < Len(ew_targets)
                   THEN ew_ti' = ew_ti + 1 /\ ew_pc' = "loop"
                   ELSE ew_ti' = ew_ti /\ ew_pc' = "done"
                /\ ew_start' = 0
                /\ ew_s' = ew_s
           ELSE LET add0 == NeedPadBefore(ew_s, idx, ew_ws)
                    addf == NeedPadAfter(ew_s, idx, ew_ws)
                    s1 == IF addf THEN InsertAt(ew_s, idx + 1, ew_pad) ELSE ew_s
                    s2 == IF add0 THEN InsertAt(s1, idx, ew_pad) ELSE s1
                IN  /\ ew_s' = s2
                    /\ ew_start' = IF addf THEN idx + 2 ELSE idx + 1
                    /\ ew_ti' = ew_ti
                    /\ ew_pc' = "loop"
    /\ UNCHANGED <<ew_in, ew_targets, ew_ws, ew_pad>>
    /\ UNCHANGED <<parse_vars, hdf_vars>>

\* return s; the locals are gone and the caller may call again
EW_Return ==
    /\ ew_pc = "done"
    /\ ew_pc' = "idle" /\ ew_in' = <<>> /\ ew_s' = <<>> /\ ew_targets' = <<>>
    /\ ew_ti' = 1 /\ ew_start' = 0 /\ ew_ws' = <<" ", "\t">> /\ ew_pad' = <<" ">>
    /\ UNCHANGED <<parse_vars, hdf_vars>>

(***************************************************************************)
(* Python values held by a tree, and the HDF5 container                    *)
(*                                                                         *)
(* A value is [ty, el, v]: its exact Python type, the exact type of its    *)
(* elements when it is a sequence, and its content (code points / numbers).*)
(* Text and byte strings with the same content differ in ty, so encoding   *)
(* and decoding are visible.                                               *)
(***************************************************************************)
NoVal == [ty |-> "", el |-> "", v |-> <<>>]

PyInt     == [ty |-> "int",      el |-> "",    v |-> <<5>>]          \* 5
PyStr     == [ty |-> "str",      el |-> "",    v |-> <<7, 8>>]       \* "hi"
PyIntList == [ty |-> "list",     el |-> "int", v |-> <<1, 2, 3>>]    \* [1, 2, 3]
NpStrArr  == [ty |-> "ndarray",  el |-> "str", v |-> <<7, 8>>]       \* np.array(["h", "i"], dtype=h5py.string_dtype())
PyBytes   == [ty |-> "bytes",    el |-> "",    v |-> <<7, 8>>]       \* b"hi"
PyNoneVal == [ty |-> "NoneType", el |-> "",    v |-> <<>>]           \* None

LeafValues == {PyInt, PyStr, PyBytes, PyIntList, NpStrArr, PyNoneVal}

\* a tree node: a dict (its items in insertion order) or a leaf
Leaf(x) == [t |-> "leaf", v |-> x, items |-> <<>>]
Dict(items) == [t |-> "dict", v |-> NoVal, items |-> items]
Item(k, n) == [k |-> k, n |-> n]

\* the key names, in the order h5py lists them (by name)
KeyOrder == <<"a", "b">>
Keys == {KeyOrder[i] : i \in 1..Len(KeyOrder)}
KeyRank(k) == CHOOSE i \in 1..Len(KeyOrder) : KeyOrder[i] = k

\* the dicts with distinct keys from Keys and values from V, in every insertion order
DictsOver(V) ==
    {Dict(<<>>)}
    \cup {Dict(<<Item(k1, x)>>) : k1 \in Keys, x \in V}
    \cup {Dict(<<Item(kk[1], xy[1]), Item(kk[2], xy[2])>>) :
             kk \in {q \in Keys \X Keys : q[1] /= q[2]}, xy \in V \X V}

InnerDicts == DictsOver({Leaf(PyStr), Leaf(PyNoneVal), Dict(<<>>)})
Trees == DictsOver({Leaf(x) : x \in LeafValues} \cup InnerDicts)

\* ---- the container adapter (h5py) ----
\* A container node is a group (its members sorted by name, as keys() lists
\* them) or a dataset holding [h5, v]: the HDF5 type and the content.
NoDs == [h5 |-> "", v |-> <<>>]
Group(kids) == [t |-> "group", ds |-> NoDs, kids |-> kids]
Dataset(d) == [t |-> "dataset", ds |-> d, kids |-> <<>>]

\* create_dataset(k, data=v) raises for a value with no HDF5 type
H5Accepts(x) == x.ty \in {"int", "str", "bytes", "list", "ndarray"}

\* what create_dataset stores: numbers as int64, text and byte strings as
\* variable-length strings, sequences as arrays of these
H5Store(x) ==
    CASE x.ty = "int"   -> [h5 |-> "int64", v |-> x.v]
      [] x.ty = "str"   -> [h5 |-> "vlen_str", v |-> x.v]
      [] x.ty = "bytes" -> [h5 |-> "vlen_str", v |-> x.v]
      [] OTHER -> IF x.el = "int" THEN [h5 |-> "int64[]", v |-> x.v]
                                  ELSE [h5 |-> "vlen_str[]", v |-> x.v]

\* fh[k][()]: numbers come back as numpy integers, variable-length strings as
\* bytes objects, arrays as numpy arrays of these
H5Read(d) ==
    CASE d.h5 = "int64"    -> [ty |-> "int64", el |-> "", v |-> d.v]
      [] d.h5 = "vlen_str" -> [ty |-> "bytes", el |-> "", v |-> d.v]
      [] d.h5 = "int64[]"  -> [ty |-> "ndarray", el |-> "int64", v |-> d.v]
      [] OTHER             -> [ty |-> "ndarray", el |-> "bytes", v |-> d.v]

\* group[k] = node, keeping the members sorted by name
RECURSIVE PutKid(_, _, _)
PutKid(kids, k, node) ==
    IF kids = <<>> THEN <<Item(k, node)>>
    ELSE IF KeyRank(k) < KeyRank(Head(kids).k) THEN <<Item(k, node)>> \o kids
    ELSE <<Head(kids)>> \o PutKid(Tail(kids), k, node)

(***************************************************************************)
(* dict_to_hdf  (jarnsaxa.py 122-201)                                      *)
(***************************************************************************)
\* write_level(fh, level_data): kids are the members of fh so far, items the
\* items of level_data still to come, n the adapter calls made so far.
\* Gives [kids, ret, exc, n]: the members of fh afterwards, the value
\* returned, whether an exception left the function instead, and n.
\* The adapter call numbered fault raises an I/O error.
RECURSIVE write_level(_, _, _, _)
write_level(kids, items, fault, n) ==
    IF items = <<>> THEN [kids |-> kids, ret |-> TRUE, exc |-> FALSE, n |-> n]
    ELSE LET k == Head(items).k
             v == Head(items).n
         IN  IF v.t = "dict"
             THEN IF n + 1 = fault
                  THEN \* fh.create_group(k) raises: nothing here catches it
                       [kids |-> kids, ret |-> FALSE, exc |-> TRUE, n |-> n + 1]
                  ELSE LET sub == write_level(<<>>, v.items, fault, n + 1)
                           kids1 == PutKid(kids, k, Group(sub.kids))
                       IN  IF sub.exc
                           THEN [kids |-> kids1, ret |-> FALSE, exc |-> TRUE, n |-> sub.n]
                           ELSE \* line 146: the value write_level returned is dropped
                                write_level(kids1, Tail(items), fault, sub.n)
             ELSE IF n + 1 = fault \/ ~H5Accepts(v.v)
                  THEN \* create_dataset raises; caught at line 153; return False
                       [kids |-> kids, ret |-> FALSE, exc |-> FALSE, n |-> n + 1]
                  ELSE write_level(PutKid(kids, k, Dataset(H5Store(v.v))),
                                   Tail(items), fault, n + 1)

\* ---- files ----
Absent == [kind |-> "absent", root |-> Group(<<>>)]
HdfFile(root) == [kind |-> "hdf", root |-> root]
\* a JSON text file; while json.dumps has not delivered, the file open() made is empty
JsonFile(complete) == [kind |-> IF complete THEN "json" ELSE "empty", root |-> Group(<<>>)]

Path_h5    == <<"d", ".", "h", "5">>
Path_hdf5  == <<"d", ".", "h", "d", "f", "5">>
Path_nodir == <<"x", "/", "d", ".", "h", "5">>     \* no directory x exists
SavePaths == {Path_h5, Path_hdf5, Path_nodir}

DotJson == <<".", "j", "s", "o", "n">>

\* save_file[:-3] + ".json"  (line 191)
JsonPath(save_file) ==
    (IF Len(save_file) > 3 THEN Slice(save_file, 0, Len(save_file) - 3) ELSE <<>>) \o DotJson

AllPaths == SavePaths \cup {JsonPath(p) : p \in SavePaths}

\* open(path, "w") and h5py.File(path, "w") need the directory to exist
Creatable(path) == ~InStr("/", path)

\* json.dumps(root_data) raises TypeError on a value that is no JSON value
JsonValue(x) == x.ty \in {"int", "str", "NoneType"} \/ (x.ty = "list" /\ x.el \in {"int", "str"})
RECURSIVE JsonSerializable(_)
JsonSerializable(node) ==
    IF node.t = "leaf" THEN JsonValue(node.v)
    ELSE \A i \in 1..Len(node.items) : JsonSerializable(node.items[i].n)

FaultPoints == {0, 1, 2}

text_all == <<parse_vars, pad_vars>>
w_args == <<w_root, w_file, w_json, w_fault>>
r_args == <<r_file, r_to_lists, r_decode_strs, r_fault>>

\* the exit of a with block closes the file, however the block was left
WithExitMut(h) == h
WithExit(h) == "closed"

\* lines 160-167: the call, up to h5py.File(save_file, 'w') inside the with header
W_Call ==
    /\ pc = "idle" /\ ~did_write /\ ~did_read
    /\ \E root_data \in Trees, save_file \in SavePaths,
          use_json_backup \in BOOLEAN, fault \in FaultPoints :
          /\ w_root' = root_data /\ w_file' = save_file
          /\ w_json' = use_json_backup /\ w_fault' = fault
          /\ hdf_successful' = TRUE
          /\ w_clean' = TRUE
          /\ IF Creatable(save_file)
             THEN /\ disk' = [disk EXCEPT ![save_file] = HdfFile(Group(<<>>))]
                  /\ handle' = "open"
                  /\ pc' = "w_body"
             ELSE \* h5py.File raises outside every try: the call ends by the exception
                  /\ disk' = disk
                  /\ handle' = "none"
                  /\ pc' = "w_raised"
    /\ UNCHANGED <<did_write, did_read, w_json_file, w_ret, r_args, r_ret, text_all>>

\* lines 170-177: the try block around write_level
W_Body ==
    /\ pc = "w_body"
    /\ LET res == write_level(<<>>, w_root.items, w_fault, 0)
       IN  /\ disk' = [disk EXCEPT ![w_file] = HdfFile(Group(res.kids))]
           /\ hdf_successful' = (~res.exc /\ res.ret)
           /\ w_clean' = (w_fault = 0 \/ w_fault > res.n)
    /\ pc' = "w_exit"
    /\ UNCHANGED <<handle, did_write, did_read, w_args, w_json_file, w_ret, r_args, r_ret, text_all>>

\* the end of the with block of line 167
W_Exit ==
    /\ pc = "w_exit"
    /\ handle' = WithExit(handle)
    /\ pc' = "w_check"
    /\ UNCHANGED <<disk, did_write, did_read, w_args, hdf_successful, w_clean, w_json_file,
                   w_ret, r_args, r_ret, text_all>>

\* lines 180-201: the success test, the JSON backup and the return value.
\* These are the outcomes of that code, with the guard of each:
\*   line 183, return True                 hdf_successful
\*   line 201, return True                 failed, no backup asked for
\*   line 201, return True                 failed, backup written
\*   line 199, return False                failed, backup raised
ReturnOnJsonErrorMut(ok) == "True"
ReturnOnJsonError(ok) == IF ok THEN "True" ELSE "False"

W_Check ==
    /\ pc = "w_check"
    /\ IF hdf_successful
       THEN /\ w_ret' = "True"
            /\ UNCHANGED <<disk, w_json_file>>
       ELSE IF w_json
            THEN LET save_file_json == JsonPath(w_file)
                     opened == Creatable(save_file_json)
                     ok == opened /\ JsonSerializable(w_root)
                 IN  /\ w_json_file' = save_file_json
                     /\ disk' = IF opened
                                THEN [disk EXCEPT ![save_file_json] = JsonFile(ok)]
                                ELSE disk
                     /\ w_ret' = ReturnOnJsonError(ok)
            ELSE /\ w_ret' = "True"
                 /\ UNCHANGED <<disk, w_json_file>>
    /\ pc' = "w_done"
    /\ UNCHANGED <<handle, did_write, did_read, w_args, hdf_successful, w_clean,
                   r_args, r_ret, text_all>>

\* the caller has the result (or the exception) and still holds root_data and
\* save_file; the other locals are gone
W_Return ==
    /\ pc \in {"w_done", "w_raised"}
    /\ pc' = "idle" /\ did_write' = TRUE
    /\ handle' = "none"
    /\ w_json' = FALSE /\ w_fault' = 0
    /\ hdf_successful' = TRUE /\ w_json_file' = <<>> /\ w_ret' = "none"
    /\ UNCHANGED <<disk, did_read, w_root, w_file, w_clean, r_args, r_ret, text_all>>

(***************************************************************************)
(* hdf_to_dict  (jarnsaxa.py 203-249)                                      *)
(***************************************************************************)
\* list(arr): the elements keep their types
PyList(x) == [ty |-> "list", el |-> x.el, v |-> x.v]

\* np.array(lst): the elements become numpy scalars
NpArray(x) ==
    [ty |-> "ndarray",
     el |-> CASE x.el = "int" -> "int64" [] x.el = "bytes" -> "bytes_"
              [] x.el = "str" -> "str_" [] OTHER -> x.el,
     v |-> x.v]

\* out_data[k][idx] = val.decode() for every idx
DecodeElems(x) == [ty |-> x.ty, el |-> "str", v |-> x.v]

\* out_data[k].decode()
Decode(x) == [ty |-> "str", el |-> "", v |-> x.v]

\* lines 222-228: [val, is_list_type]
ToListOrArray(raw, to_lists) ==
    IF raw.ty = "ndarray" /\ to_lists THEN [val |-> PyList(raw), is_list_type |-> TRUE]
    ELSE IF raw.ty = "list" /\ ~to_lists THEN [val |-> NpArray(raw), is_list_type |-> TRUE]
    ELSE [val |-> raw, is_list_type |-> FALSE]

\* lines 218-235: what is stored under k for a dataset read as raw
Normalize(raw, to_lists, decode_strs) ==
    LET c == ToListOrArray(raw, to_lists)
    IN  IF c.is_list_type /\ Len(c.val.v) > 0 /\ c.val.el = "bytes"
        THEN DecodeElems(c.val)
        ELSE IF decode_strs /\ c.val.ty = "bytes" THEN Decode(c.val)
        ELSE c.val

\* read_level(fh): the dict built from the members kids of fh, in keys() order
RECURSIVE read_level(_, _, _)
read_level(kids, to_lists, decode_strs) ==
    Dict([i \in 1..Len(kids) |->
            Item(kids[i].k,
                 IF kids[i].n.t = "group"
                 THEN read_level(kids[i].n.kids, to_lists, decode_strs)
                 ELSE Leaf(Normalize(H5Read(kids[i].n.ds), to_lists, decode_strs)))])

NotReturned == [t |-> "pending", v |-> NoVal, items |-> <<>>]
PyNone == [t |-> "None", v |-> NoVal, items |-> <<>>]

ReadPaths == {Path_h5, Path_hdf5, JsonPath(Path_h5)}

\* line 240: the call, up to h5py.File(filename, 'r') inside the with header
R_Call ==
    /\ pc = "idle" /\ ~did_read
    /\ \E filename \in ReadPaths, to_lists \in BOOLEAN, decode_strs \in BOOLEAN :
          /\ r_file' = filename /\ r_to_lists' = to_lists /\ r_decode_strs' = decode_strs
          /\ IF disk[filename].kind = "hdf"
             THEN handle' = "open" /\ pc' = "r_body"
             ELSE \* no such file, or not an HDF5 file: h5py.File raises outside the try
                  handle' = "none" /\ pc' = "r_raised"
    /\ r_fault' = FALSE
    /\ r_ret' = NotReturned
    /\ UNCHANGED <<disk, did_write, did_read, w_args, hdf_successful, w_clean, w_json_file,
                   w_ret, text_all>>

\* lines 242-246: the try block; fault: an adapter call of read_level raises
R_Body ==
    /\ pc = "r_body"
    /\ \E fault \in BOOLEAN :
          /\ r_fault' = fault
          /\ r_ret' = IF fault THEN PyNone
                      ELSE read_level(disk[r_file].root.kids, r_to_lists, r_decode_strs)
    /\ pc' = "r_exit"
    /\ UNCHANGED <<disk, handle, did_write, did_read, w_args, hdf_successful, w_clean,
                   w_json_file, w_ret, r_file, r_to_lists, r_decode_strs, text_all>>

\* the end of the with block of line 240, left by return None or by falling through
R_Exit ==
    /\ pc = "r_exit"
    /\ handle' = WithExit(handle)
    /\ pc' = "r_done"
    /\ UNCHANGED <<disk, did_write, did_read, w_args, hdf_successful, w_clean, w_json_file,
                   w_ret, r_args, r_ret, text_all>>

R_Return ==
    /\ pc \in {"r_done", "r_raised"}
    /\ pc' = "idle" /\ did_read' = TRUE
    /\ handle' = "none"
    /\ r_file' = <<>> /\ r_to_lists' = TRUE /\ r_decode_strs' = TRUE /\ r_fault' = FALSE
    /\ r_ret' = NotReturned
    /\ UNCHANGED <<disk, did_write, w_args, hdf_successful, w_clean, w_json_file, w_ret, text_all>>

HdfInit ==
    /\ disk = [p \in AllPaths |-> Absent]
    /\ handle = "none" /\ pc = "idle" /\ did_write = FALSE /\ did_read = FALSE
    /\ w_root = Dict(<<>>) /\ w_file = <<>> /\ w_json = FALSE /\ w_fault = 0
    /\ hdf_successful = TRUE /\ w_clean = TRUE /\ w_json_file = <<>> /\ w_ret = "none"
    /\ r_file = <<>> /\ r_to_lists = TRUE /\ r_decode_strs = TRUE /\ r_fault = FALSE
    /\ r_ret = NotReturned

(***************************************************************************)
(* Specifications                                                          *)
(***************************************************************************)
TextInit ==
    /\ p_pc = "idle" /\ p_input = <<>> /\ p_delims = <<" ">> /\ p_out = <<>>
    /\ ew_pc = "idle" /\ ew_in = <<>> /\ ew_s = <<>> /\ ew_targets = <<>>
    /\ ew_ti = 1 /\ ew_start = 0 /\ ew_ws = <<" ", "\t">> /\ ew_pad = <<" ">>

Init == TextInit /\ HdfInit

\* a session of the converter: dict_to_hdf, then hdf_to_dict, each at most once
Next == W_Call \/ W_Body \/ W_Exit \/ W_Check \/ W_Return
        \/ R_Call \/ R_Body \/ R_Exit \/ R_Return
Spec == Init /\ [][Next]_vars

NextParse == ParseIdx \/ ParseReturn
SpecParse == Init /\ [][NextParse]_vars

NextPad == EW_Call \/ EW_Iter \/ EW_Return
\* the interpreter keeps running the loop of a call in progress
SpecPad == Init /\ [][NextPad]_vars /\ WF_vars(EW_Iter)

(***************************************************************************)
(* Notions used by the properties of the converter                        *)
(***************************************************************************)
RECURSIVE HasUnsupportedLeaf(_)
HasUnsupportedLeaf(node) ==
    IF node.t = "leaf" THEN ~H5Accepts(node.v)
    ELSE \E i \in 1..Len(node.items) : HasUnsupportedLeaf(node.items[i].n)

\* the traversal that stops at the first create_dataset that fails, at any
\* depth: [kids, failed, exc, n] with failed: a create_dataset failed
RECURSIVE AbortingWrite(_, _, _, _)
AbortingWrite(kids, items, fault, n) ==
    IF items = <<>> THEN [kids |-> kids, failed |-> FALSE, exc |-> FALSE, n |-> n]
    ELSE LET k == Head(items).k
             v == Head(items).n
         IN  IF v.t = "dict"
             THEN IF n + 1 = fault
                  THEN [kids |-> kids, failed |-> FALSE, exc |-> TRUE, n |-> n + 1]
                  ELSE LET sub == AbortingWrite(<<>>, v.items, fault, n + 1)
                           kids1 == PutKid(kids, k, Group(sub.kids))
                       IN  IF sub.exc \/ sub.failed
                           THEN [kids |-> kids1, failed |-> sub.failed, exc |-> sub.exc,
                                 n |-> sub.n]
                           ELSE AbortingWrite(kids1, Tail(items), fault, sub.n)
             ELSE IF n + 1 = fault \/ ~H5Accepts(v.v)
                  THEN [kids |-> kids, failed |-> TRUE, exc |-> FALSE, n |-> n + 1]
                  ELSE AbortingWrite(PutKid(kids, k, Dataset(H5Store(v.v))),
                                     Tail(items), fault, n + 1)

WriteOver == pc \in {"w_exit", "w_check", "w_done"}

(***************************************************************************)
(* C1: when create_dataset fails at any nesting depth, nothing that comes  *)
(* after the failing leaf in mapping order is written, hdf_successful is   *)
(* false, and the partly written container is closed and kept.             *)
(***************************************************************************)
C1_AbortAtAnyDepth ==
    WriteOver =>
       LET e == AbortingWrite(<<>>, w_root.items, w_fault, 0)
       IN  e.failed =>
              /\ disk[w_file] = HdfFile(Group(e.kids))
              /\ ~hdf_successful
              /\ pc = "w_done" => handle = "closed"

(***************************************************************************)
(* C2: when the primary write fails on an unsupported leaf and             *)
(* use_json_backup is false, dict_to_hdf returns False and the container   *)
(* file is still on disk.                                                  *)
(***************************************************************************)
C2_FailureReported ==
    (pc = "w_done" /\ ~w_json /\ ~hdf_successful /\ HasUnsupportedLeaf(w_root)) =>
       /\ w_ret = "False"
       /\ disk[w_file].kind = "hdf"

(***************************************************************************)
(* C3: when use_json_backup is true and the primary write fails, the JSON  *)
(* fallback is attempted and dict_to_hdf returns True, whether the JSON    *)
(* file was written or writing it failed.                                  *)
(***************************************************************************)
FallbackCase == pc = "w_done" /\ w_json /\ ~hdf_successful

C4_NothingEscapes ==
    /\ pc \notin {"w_raised", "r_raised"}
    /\ pc = "w_done" => w_ret \in {"True", "False"}
    /\ (pc = "r_done" /\ r_fault) => r_ret = PyNone

(***************************************************************************)
(* C5: for a tree whose leaves the adapter all accepts, reading back what  *)
(* dict_to_hdf wrote gives the same keys and nesting, and leaves equal to  *)
(* the originals up to: sequences in the form to_lists selects, byte       *)
(* strings decoded to text when decode_strs is set.                        *)
(***************************************************************************)
\* numbers compare by value: 5 == np.int64(5)
NumType(ty) == IF ty = "int64" THEN "int" ELSE ty
Canon(x) == [ty |-> NumType(x.ty), el |-> NumType(x.el), v |-> x.v]

ExpectedLeaf(x, to_lists, decode_strs) ==
    IF x.ty \in {"list", "ndarray"}
    THEN [ty |-> IF to_lists THEN "list" ELSE "ndarray",
          el |-> IF x.el = "bytes" /\ decode_strs THEN "str" ELSE x.el,
          v |-> x.v]
    ELSE IF x.ty = "bytes" /\ decode_strs THEN [ty |-> "str", el |-> "", v |-> x.v]
    ELSE x

\* a dict equals another whatever the order of its items: index both by key
RECURSIVE SameTree(_, _, _, _)
SameTree(got, orig, to_lists, decode_strs) ==
    IF orig.t = "leaf"
    THEN got.t = "leaf" /\ Canon(got.v) = Canon(ExpectedLeaf(orig.v, to_lists, decode_strs))
    ELSE /\ got.t = "dict"
         /\ {got.items[i].k : i \in 1..Len(got.items)}
               = {orig.items[i].k : i \in 1..Len(orig.items)}
         /\ Len(got.items) = Len(orig.items)
         /\ \A i \in 1..Len(got.items), j \in 1..Len(orig.items) :
               got.items[i].k = orig.items[j].k =>
                  SameTree(got.items[i].n, orig.items[j].n, to_lists, decode_strs)

RoundTripCase ==
    /\ pc = "r_done" /\ did_write /\ r_file = w_file
    /\ w_clean /\ ~r_fault /\ ~HasUnsupportedLeaf(w_root)

C5_RoundTrip ==
    RoundTripCase => SameTree(r_ret, w_root, r_to_lists, r_decode_strs)

(***************************************************************************)
(* C6: a call that opened the container has closed it when it returns, on  *)
(* every path; the handle is open only inside the with block.              *)
(***************************************************************************)
C6_HandleClosed ==
    /\ pc \in {"w_check", "w_done", "r_done"} => handle = "closed"
    /\ handle = "open" => pc \in {"w_body", "w_exit", "r_body", "r_exit"}

\* the reader's early return None, taken inside the with block
C6_Witness == pc = "r_done" /\ r_fault /\ r_ret = PyNone /\ handle = "closed"

(***************************************************************************)
(* C7: the JSON fallback file is save_file with its extension, whatever    *)
(* its length, replaced by ".json", and it is attempted only when the      *)
(* primary write failed and use_json_backup is true.                       *)
(***************************************************************************)
\* the position (0-based) of the dot that starts the extension, -1 without one
RECURSIVE ExtDot(_, _)
ExtDot(path, i) ==
    IF i <= 0 THEN -1
    ELSE IF At(path, i) = "/" THEN -1
    ELSE IF At(path, i) = "." /\ At(path, i - 1) /= "/" THEN i
    ELSE ExtDot(path, i - 1)

ReplaceExt(path, ext) ==
    LET d == ExtDot(path, Len(path) - 1)
    IN  (IF d = -1 THEN path ELSE Slice(path, 0, d)) \o ext

C7_ExtensionReplaced ==
    pc = "w_done" =>
       /\ w_json_file /= <<>> <=> (w_json /\ ~hdf_successful)
       /\ w_json_file /= <<>> => w_json_file = ReplaceExt(w_file, DotJson)

(***************************************************************************)
(* C8: in what hdf_to_dict returns, a dataset that is a non-empty sequence *)
(* starting with a byte string after the list/array step has all its       *)
(* elements decoded to text, for both values of decode_strs and of         *)
(* to_lists: no sequence of byte strings is left in the tree.              *)
(***************************************************************************)
RECURSIVE NoByteSequence(_)
NoByteSequence(node) ==
    IF node.t = "leaf"
    THEN ~(node.v.ty \in {"list", "ndarray"} /\ Len(node.v.v) > 0 /\ node.v.el = "bytes")
    ELSE \A i \in 1..Len(node.items) : NoByteSequence(node.items[i].n)

C8_SequencesDecoded ==
    (pc = "r_done" /\ r_ret.t = "dict") => NoByteSequence(r_ret)

(***************************************************************************)
(* C9: parse_idx returns exactly the maximal runs of non-delimiter         *)
(* characters, left to right: every token is non-empty, holds no           *)
(* delimiter, equals input[idx:idx_end] with idx < idx_end, tokens do not  *)
(* overlap, every character outside the tokens is a delimiter, and no      *)
(* token can be extended on either side (maximality).                      *)
(***************************************************************************)
InToken(i) == \E n \in 1..Len(p_out) : p_out[n].idx <= i /\ i < p_out[n].idx_end

C9_MaximalRuns ==
    p_pc = "done" =>
    /\ \A n \in 1..Len(p_out) :
          LET t == p_out[n]
          IN  /\ 0 <= t.idx /\ t.idx < t.idx_end /\ t.idx_end <= Len(p_input)
              /\ t.str = Slice(p_input, t.idx, t.idx_end)
              /\ Len(t.str) = t.idx_end - t.idx
              /\ \A j \in 1..Len(t.str) : ~InStr(t.str[j], p_delims)
              /\ t.idx > 0 => InStr(At(p_input, t.idx - 1), p_delims)
              /\ t.idx_end < Len(p_input) => InStr(At(p_input, t.idx_end), p_delims)
    /\ \A n \in 1..(Len(p_out) - 1) : p_out[n].idx_end < p_out[n + 1].idx
    /\ \A i \in 0..(Len(p_input) - 1) :
          ~InToken(i) => InStr(At(p_input, i), p_delims)

\* a token of two characters behind a leading delimiter
C9_Witness ==
    /\ p_pc = "done"
    /\ Len(p_out) = 1
    /\ p_out[1].idx = 1 /\ p_out[1].idx_end = 3
    /\ InStr(At(p_input, 0), p_delims)

(***************************************************************************)
(* C10: with pad_char one character of whitespace_list and no target in    *)
(* whitespace_list, ensureWhitespace terminates, and in what it returns    *)
(* every target character has a whitespace_list character (or the string's *)
(* edge) on both sides, and deleting inserted pad characters gives s back. *)
(***************************************************************************)
EW_Pre ==
    /\ Len(ew_pad) = 1 /\ InStr(ew_pad[1], ew_ws)
    /\ \A j \in 1..Len(ew_targets) : ~InStr(ew_targets[j], ew_ws)

\* r is s with copies of the character pad inserted
RECURSIVE Unpads(_, _, _)
Unpads(r, s, pad) ==
    IF r = <<>> THEN s = <<>>
    ELSE IF s /= <<>> /\ Head(r) = Head(s) THEN Unpads(Tail(r), Tail(s), pad)
    ELSE IF Head(r) = pad THEN Unpads(Tail(r), s, pad)
    ELSE FALSE

EW_Post ==
    /\ \A i \in 0..(Len(ew_s) - 1) :
          InStr(At(ew_s, i), ew_targets) =>
             /\ i = 0 \/ InStr(At(ew_s, i - 1), ew_ws)
             /\ i = Len(ew_s) - 1 \/ InStr(At(ew_s, i + 1), ew_ws)
    /\ Unpads(ew_s, ew_in, ew_pad[1])

C10_PadsAndTerminates ==
    /\ []((ew_pc = "done" /\ EW_Pre) => EW_Post)
    /\ ((ew_pc = "loop" /\ EW_Pre) ~> (ew_pc = "done"))

\* a call that had to pad two adjacent targets on both sides
C10_Witness ==
    /\ ew_pc = "done" /\ EW_Pre
    /\ Len(ew_targets) = 2
    /\ Len(ew_s) >= Len(ew_in) + 2

====
